---- MODULE Spec2Model ----
(***************************************************************************)
(* Persistent timers and profiles of the Ambient Study Companion backend   *)
(* (src/app.py).                                                           *)
(*                                                                         *)
(* The timers table is a sequence of rows indexed by the AUTOINCREMENT id. *)
(* The UTC clock is counted in ticks, TicksPerMs ticks to a millisecond,   *)
(* so that the truncation of a time difference to whole milliseconds is    *)
(* visible.  A stored ISO timestamp is the one-element tuple <<t>> of the  *)
(* instant it denotes, SQL NULL / JSON null / Python None is <<>>.  The    *)
(* column is plain TEXT: <<t, off>> is an ISO timestamp that carries a UTC *)
(* offset and a tuple of three elements is text that is no timestamp.      *)
(* Every handler is one action; each datetime.utcnow() it evaluates is a   *)
(* separate clock read, so the clock may advance while a request is being  *)
(* handled.  Where requests overlap, a handler is two actions: its SELECT  *)
(* with the checks, and the rest.  The profiles table is a set of rows.    *)
(***************************************************************************)
EXTENDS Integers, Sequences, FiniteSets, TLC

\* ---- bounds of the model ----
MaxClock == 4      \* last instant of the clock, in ticks
TicksPerMs == 2    \* resolution of the clock
MaxTimers == 2     \* rows of the table, where several timers are followed
MaxShortClock == 2 \* last instant of the clock in the shorter runs
MaxProfiles == 3   \* profiles ever inserted, the default one included

\* timers: the timers table; clock: the UTC clock; resp: the last response;
\* runs: per timer, the record of its running intervals (not program state);
\* limits: the size of the run: the rows the table may hold, the last instant
\* of the clock and the times the clock may still be set back;
\* profiles: the profiles table and its AUTOINCREMENT sequence;
\* inflight: the requests that have SELECTed their row and not yet written
\* (limits.inflight of them at most, where requests overlap)
VARIABLES timers, clock, resp, runs, limits, profiles, inflight

vars == <<timers, clock, resp, runs, limits, profiles, inflight>>

None == <<>>
Some(v) == <<v>>

Max(a, b) == IF a >= b THEN a ELSE b

\* x or d, for an optional JSON string x
OrDefault(x, d) == IF x = None \/ x = Some("") THEN d ELSE x[1]

\* str.strip() on the strings the requests carry
Strip(s) ==
  CASE s = " custom " -> "custom"
    [] s = " a " -> "a"
    [] s = " " -> ""
    [] OTHER -> s

\* int(v) for a JSON value v: [tag, n] with tag "int" (the number n),
\* "numstr" (the decimal string of n) or "badstr" (a string that is no number)
PyInt(v) ==
  CASE v.tag = "int" -> [ok |-> TRUE, n |-> v.n]
    [] v.tag = "numstr" -> [ok |-> TRUE, n |-> v.n]
    [] OTHER -> [ok |-> FALSE, n |-> 0]

\* datetime.utcnow().isoformat() evaluated at instant t
now_iso(t) == Some(t)

\* datetime.fromisoformat(s) for a stored timestamp s
fromisoformat(s) == s[1]

\* datetime.fromisoformat(s) does not raise
Parseable(s) == Len(s) \in {1, 2}

\* datetime.fromisoformat(s) carries a tzinfo
Aware(s) == Len(s) = 2

\* datetime.utcnow() - fromisoformat(s) does not raise: utcnow() is naive, and
\* a naive and an aware datetime cannot be subtracted (TypeError)
Subtractable(s) == Parseable(s) /\ ~Aware(s)

\* int((now - started).total_seconds() * 1000): truncation toward zero (the
\* product is taken exactly here; Python forms it in floating point)
delta_ms(now, started) ==
  IF now >= started THEN (now - started) \div TicksPerMs
  ELSE 0 - ((started - now) \div TicksPerMs)

\* ---- inputs ----
KindInputs == {None, Some("stopwatch"), Some("bogus")}
LabelInputs == {None, Some(" a ")}
DurationInputs ==
  {[tag |-> "null", n |-> 0], [tag |-> "int", n |-> -1], [tag |-> "int", n |-> 0],
   [tag |-> "int", n |-> 1], [tag |-> "numstr", n |-> 2], [tag |-> "badstr", n |-> 0]}
NoDuration == [tag |-> "null", n |-> 0]
Payloads ==
  [kind : KindInputs, label : {None}, duration_ms : {NoDuration}]
    \cup [kind : {None}, label : LabelInputs, duration_ms : {NoDuration}]
    \cup [kind : {None}, label : {None}, duration_ms : DurationInputs]

\* ids a request may name: those the table can hold and one it never assigns
TimerIds == 1..(limits.timers + 1)

Instants(from) == from..limits.clock

\* ---- live fields ----
LiveFieldsNoStatusCheck(row, t) ==
  LET accumulated_ms == row.accumulated_ms
      live_elapsed == IF row.started_at # None /\ Subtractable(row.started_at)
                      THEN accumulated_ms + Max(0, delta_ms(t, fromisoformat(row.started_at)))
                      ELSE accumulated_ms
  IN [live_elapsed_ms |-> live_elapsed,
      live_remaining_ms |-> IF row.duration_ms # None
                            THEN Some(Max(0, row.duration_ms[1] - live_elapsed))
                            ELSE None]

LiveFieldsNoClamp(row, t) ==
  LET accumulated_ms == row.accumulated_ms
      live_elapsed == IF row.status = "running" /\ row.started_at # None
                                         /\ Subtractable(row.started_at)
                      THEN accumulated_ms + Max(0, delta_ms(t, fromisoformat(row.started_at)))
                      ELSE accumulated_ms
  IN [live_elapsed_ms |-> live_elapsed,
      live_remaining_ms |-> IF row.duration_ms # None
                            THEN Some(row.duration_ms[1] - live_elapsed)
                            ELSE None]

LiveFieldsStopwatchNoRemaining(row, t) ==
  LET accumulated_ms == row.accumulated_ms
      live_elapsed == IF row.status = "running" /\ row.started_at # None
                                         /\ Subtractable(row.started_at)
                      THEN accumulated_ms + Max(0, delta_ms(t, fromisoformat(row.started_at)))
                      ELSE accumulated_ms
  IN [live_elapsed_ms |-> live_elapsed,
      live_remaining_ms |-> IF row.duration_ms # None /\ row.kind # "stopwatch"
                            THEN Some(Max(0, row.duration_ms[1] - live_elapsed))
                            ELSE None]

LiveFieldsZeroRemaining(row, t) ==
  LET accumulated_ms == row.accumulated_ms
      live_elapsed == IF row.status = "running" /\ row.started_at # None
                                         /\ Subtractable(row.started_at)
                      THEN accumulated_ms + Max(0, delta_ms(t, fromisoformat(row.started_at)))
                      ELSE accumulated_ms
  IN [live_elapsed_ms |-> live_elapsed,
      live_remaining_ms |-> IF row.duration_ms # None
                            THEN Some(Max(0, row.duration_ms[1] - live_elapsed))
                            ELSE Some(0)]

\* _timer_live_fields(row), its datetime.utcnow() read at instant t
timer_live_fields(row, t) ==
  LET accumulated_ms == row.accumulated_ms
      live_elapsed == IF row.status = "running" /\ row.started_at # None
                                         /\ Subtractable(row.started_at)
                      THEN accumulated_ms + Max(0, delta_ms(t, fromisoformat(row.started_at)))
                      ELSE accumulated_ms
  IN [live_elapsed_ms |-> live_elapsed,
      live_remaining_ms |-> IF row.duration_ms # None
                            THEN Some(Max(0, row.duration_ms[1] - live_elapsed))
                            ELSE None]

\* whether _timer_live_fields(row) evaluates datetime.utcnow()
ReadsClock(row) == row.status = "running" /\ row.started_at # None

\* d = dict(row); d.update(_timer_live_fields(row))
Project(row, t) ==
  LET lf == timer_live_fields(row, t)
  IN [f \in DOMAIN row \cup DOMAIN lf |-> IF f \in DOMAIN lf THEN lf[f] ELSE row[f]]

\* the instants at which the live fields of `row` may be derived, from `from` on
LiveInstants(row, from) == IF ReadsClock(row) THEN Instants(from) ELSE {from}

\* SELECT * FROM timers WHERE id=?  (fetchone)
SelectById(tid) == IF tid \in 1..Len(timers) THEN Some(timers[tid]) ELSE None

Response(op, tid, code, row0, body) ==
  [op |-> op, tid |-> tid, code |-> code, row0 |-> row0, timers |-> body]

\* ---- the profiles table ----
\* the row INSERTed into profiles: is_active is 1 for the default profile of
\* init_db and 0 for a profile of create_profile
ProfileRow(pid, name, mode, is_active) ==
  [id |-> pid, name |-> name, mode |-> mode, is_active |-> is_active]

\* init_db on the profiles table: the default profile is created if the
\* table holds no profile
init_db_profiles(table) ==
  IF Cardinality(table.rows) = 0
  THEN [rows |-> {ProfileRow(table.seq + 1, "Default", "study", 1)}, seq |-> table.seq + 1]
  ELSE table

\* the database file of a first start: no table holds a row
NoProfiles == [rows |-> {}, seq |-> 0]

Init ==
  /\ timers = <<>>
  /\ clock = 0
  /\ resp = Response("none", 0, 0, None, <<>>)
  /\ runs = <<>>
  /\ limits = [timers |-> 1, clock |-> MaxClock, back |-> 0]
  /\ profiles = init_db_profiles(NoProfiles)
  /\ inflight = {}

\* the wall clock advances between requests
Tick ==
  /\ clock < limits.clock
  /\ clock' = clock + 1
  /\ UNCHANGED <<timers, resp, runs, limits, profiles, inflight>>

\* the record kept of a timer's running intervals (not program state): open,
\* the instant the open interval began; ticks and ms, the lengths of the
\* finished intervals summed exactly and in whole milliseconds; start, the
\* instant of the last transition into running; left, the paused_at written
\* by the last transition out of running; overtaken, whether a terminal status
\* was stored while a request that had read an earlier row was in flight
NewRun(start) ==
  [open |-> start, ticks |-> 0, ms |-> 0, start |-> start, left |-> None,
   overtaken |-> FALSE]

InitDbRecreates(table) == <<>>

\* init_db on the timers table: CREATE TABLE IF NOT EXISTS keeps the rows
init_db(table) == table

\* the server process is started again: nothing in memory survives, init_db
\* runs, and no response is outstanding
Restart ==
  /\ timers' = init_db(timers)
  /\ profiles' = init_db_profiles(profiles)
  /\ resp' = Response("none", 0, 0, None, <<>>)
  /\ UNCHANGED <<clock, runs, limits, inflight>>

\* the wall clock is set back between requests
ClockBack ==
  /\ limits.back > 0
  /\ \E t \in 0..(clock - 1) : clock' = t
  /\ limits' = [limits EXCEPT !.back = @ - 1]
  /\ UNCHANGED <<timers, resp, runs, profiles, inflight>>

\* ---- create ----
\* kind = (payload.get("kind") or "pomodoro").strip(); unrecognized -> "custom"
CreateKind(p) ==
  LET kind == Strip(OrDefault(p.kind, "pomodoro"))
  IN IF kind \in {"pomodoro", "stopwatch", "custom"} THEN kind ELSE "custom"

CreateLabel(p) == Strip(OrDefault(p.label, ""))

\* the duration_ms conversion of create_timer: [ok, value]; ok = FALSE is the 400
CreateDuration(p) ==
  IF p.duration_ms.tag = "null" THEN [ok |-> TRUE, value |-> None]
  ELSE LET c == PyInt(p.duration_ms)
       IN IF c.ok THEN [ok |-> TRUE, value |-> Some(c.n)]
          ELSE [ok |-> FALSE, value |-> None]

NewTimerRowPausedAtNow(tid, kind, label, duration_ms, now) ==
  [id |-> tid, kind |-> kind, label |-> label, duration_ms |-> duration_ms,
   status |-> "running", started_at |-> now, paused_at |-> now,
   accumulated_ms |-> 0, created_at |-> now, updated_at |-> now]

\* the row INSERTed by create_timer, now = _now_iso()
NewTimerRow(tid, kind, label, duration_ms, now) ==
  [id |-> tid, kind |-> kind, label |-> label, duration_ms |-> duration_ms,
   status |-> "running", started_at |-> now, paused_at |-> None,
   accumulated_ms |-> 0, created_at |-> now, updated_at |-> now]

create_timer(p) ==
  LET d == CreateDuration(p)
  IN IF ~d.ok
     THEN /\ resp' = Response("create", 0, 400, None, <<>>)
          /\ UNCHANGED <<timers, clock, runs, limits, profiles, inflight>>
     ELSE /\ Len(timers) < limits.timers
          /\ UNCHANGED <<limits, profiles, inflight>>
          /\ \E t1 \in Instants(clock) :
               LET tid == Len(timers) + 1
                   row == NewTimerRow(tid, CreateKind(p), CreateLabel(p), d.value, now_iso(t1))
               IN \E t2 \in LiveInstants(row, t1) :
                    /\ timers' = Append(timers, row)
                    /\ resp' = Response("create", tid, 200, None, <<Project(row, t2)>>)
                    /\ clock' = t2
                    /\ runs' = Append(runs, NewRun(Some(t1)))

\* ---- list ----
RECURSIVE OrderByIdAsc(_)
OrderByIdAsc(ids) ==
  IF ids = {} THEN <<>>
  ELSE LET m == CHOOSE i \in ids : \A j \in ids : i <= j
       IN <<timers[m]>> \o OrderByIdAsc(ids \ {m})

\* ORDER BY id DESC over the rows whose index is in ids
RECURSIVE OrderByIdDesc(_)
OrderByIdDesc(ids) ==
  IF ids = {} THEN <<>>
  ELSE LET m == CHOOSE i \in ids : \A j \in ids : j <= i
       IN <<timers[m]>> \o OrderByIdDesc(ids \ {m})

\* the clock reads of the loop over rows: one per row, never going back, and
\* standing still at a row whose live fields need no clock
LoopReads(rows) ==
  {r \in [1..Len(rows) -> Instants(clock)] :
     \A i \in 1..Len(rows) :
        LET prev == IF i = 1 THEN clock ELSE r[i - 1]
        IN r[i] \in LiveInstants(rows[i], prev)}

ListResponse(op, rows) ==
  \E r \in LoopReads(rows) :
     /\ resp' = Response(op, 0, 200, None, [i \in 1..Len(rows) |-> Project(rows[i], r[i])])
     /\ clock' = IF Len(rows) = 0 THEN clock ELSE r[Len(rows)]
     /\ UNCHANGED <<timers, runs, limits, profiles, inflight>>

list_timers == ListResponse("list", OrderByIdDesc(1..Len(timers)))

ActiveTimersListsAll == ListResponse("active", OrderByIdDesc(1..Len(timers)))

\* WHERE status IN ('running','paused') ORDER BY id DESC
active_timers ==
  ListResponse("active",
               OrderByIdDesc({i \in 1..Len(timers) : timers[i].status \in {"running", "paused"}}))

\* ---- pause / resume / stop ----
NotFoundAnswersOk(op, tid) ==
  /\ resp' = Response(op, tid, 200, None, <<>>)
  /\ UNCHANGED <<timers, clock, runs, limits, profiles, inflight>>

\* if not row: 404
NotFound(op, tid) ==
  /\ resp' = Response(op, tid, 404, None, <<>>)
  /\ UNCHANGED <<timers, clock, runs, limits, profiles, inflight>>

InvalidState(op, tid, row) ==
  /\ resp' = Response(op, tid, 400, Some(row), <<>>)
  /\ UNCHANGED <<timers, clock, runs, limits, profiles, inflight>>

ReplyTouchesCreatedAt(op, tid, row0, new, last) ==
  LET written == [new EXCEPT !.created_at = new.updated_at]
  IN \E t \in LiveInstants(written, last) :
       /\ timers' = [timers EXCEPT ![tid] = written]
       /\ UNCHANGED <<limits, profiles, inflight>>
       /\ resp' = Response(op, tid, 200, Some(row0), <<Project(written, t)>>)
       /\ clock' = t

ReplyClearsStartedAt(op, tid, row0, new, last) ==
  LET written == IF new.status = "running" THEN new ELSE [new EXCEPT !.started_at = None]
  IN \E t \in LiveInstants(written, last) :
       /\ timers' = [timers EXCEPT ![tid] = written]
       /\ UNCHANGED <<limits, profiles, inflight>>
       /\ resp' = Response(op, tid, 200, Some(row0), <<Project(written, t)>>)
       /\ clock' = t

\* the UPDATE ... WHERE id=? and commit, then the reply of pause/resume/stop:
\* the row SELECTed again, with its live fields
Reply(op, tid, row0, new, last) ==
  \E t \in LiveInstants(new, last) :
     /\ timers' = [timers EXCEPT ![tid] = new]
     /\ UNCHANGED <<limits, profiles, inflight>>
     /\ resp' = Response(op, tid, 200, Some(row0), <<Project(new, t)>>)
     /\ clock' = t

\* the running interval of timer tid ends at instant t, the clock read of the
\* delta, and paused_at is written with instant tp
CloseRun(tid, t, tp) ==
  runs' = [runs EXCEPT ![tid] =
             IF @.open = None THEN [@ EXCEPT !.left = Some(tp)]
             ELSE [@ EXCEPT !.open = None,
                            !.ticks = @ + (t - runs[tid].open[1]),
                            !.ms = @ + ((t - runs[tid].open[1]) \div TicksPerMs),
                            !.left = Some(tp)]]

BankedOverwrite(row, t) ==
  IF row.started_at # None /\ Subtractable(row.started_at)
  THEN Max(0, delta_ms(t, fromisoformat(row.started_at)))
  ELSE row.accumulated_ms

BankedNoClamp(row, t) ==
  IF row.started_at # None /\ Subtractable(row.started_at)
  THEN row.accumulated_ms + delta_ms(t, fromisoformat(row.started_at))
  ELSE row.accumulated_ms

\* accumulated_ms += max(0, delta_ms), the clock read at instant t; nothing is
\* added when started_at is NULL or, in stop_timer, when the try block raises
Banked(row, t) ==
  IF row.started_at # None /\ Subtractable(row.started_at)
  THEN row.accumulated_ms + Max(0, delta_ms(t, fromisoformat(row.started_at)))
  ELSE row.accumulated_ms

\* a 500: the handler raised; nothing was committed
ServerError(op, tid, row) ==
  /\ resp' = Response(op, tid, 500, Some(row), <<>>)
  /\ UNCHANGED <<timers, clock, runs, limits, profiles, inflight>>

\* pause_timer parses started_at inside try/except but subtracts outside it
PauseRaises(row) ==
  row.started_at # None /\ Parseable(row.started_at) /\ Aware(row.started_at)

PauseAllowedAlways(row) == TRUE

PauseAllowedUnlessPaused(row) == row.status # "paused"

\* if row["status"] != "running": 400
PauseAllowed(row) == row.status = "running"

\* the row after pause_timer's UPDATE: the delta read at t1, paused_at at t2,
\* updated_at at t3
PauseRow(row, t1, t2, t3) ==
  [row EXCEPT !.status = "paused",
              !.paused_at = now_iso(t2),
              !.accumulated_ms = Banked(row, t1),
              !.updated_at = now_iso(t3)]

pause_timer(tid) ==
  LET sel == SelectById(tid)
  IN IF sel = None THEN NotFound("pause", tid)
     ELSE LET row == sel[1]
          IN IF ~PauseAllowed(row) THEN InvalidState("pause", tid, row)
             ELSE IF PauseRaises(row) THEN ServerError("pause", tid, row)
             ELSE \E t1 \in Instants(clock) : \E t2 \in Instants(t1) : \E t3 \in Instants(t2) :
                    LET new == PauseRow(row, t1, t2, t3)
                    IN /\ Reply("pause", tid, row, new, t3)
                       /\ CloseRun(tid, t1, t2)

ResumeAllowedUnlessRunning(row) == row.status # "running"

\* if row["status"] != "paused": 400
ResumeAllowed(row) == row.status = "paused"

\* the row after resume_timer's UPDATE: started_at at t1, updated_at at t2
ResumeRow(row, t1, t2) ==
  [row EXCEPT !.status = "running",
              !.started_at = now_iso(t1),
              !.updated_at = now_iso(t2)]

resume_timer(tid) ==
  LET sel == SelectById(tid)
  IN IF sel = None THEN NotFound("resume", tid)
     ELSE LET row == sel[1]
          IN IF ~ResumeAllowed(row) THEN InvalidState("resume", tid, row)
             ELSE \E t1 \in Instants(clock) : \E t2 \in Instants(t1) :
                    LET new == ResumeRow(row, t1, t2)
                    IN /\ Reply("resume", tid, row, new, t2)
                       /\ runs' = [runs EXCEPT ![tid].open = Some(t1), ![tid].start = Some(t1)]

StopStatusIgnoresNull(row, accumulated_ms) ==
  IF row.duration_ms = None THEN "completed"
  ELSE IF accumulated_ms >= row.duration_ms[1] THEN "completed" ELSE "stopped"

StopStatusStrict(row, accumulated_ms) ==
  IF row.duration_ms # None /\ accumulated_ms > row.duration_ms[1]
  THEN "completed" ELSE "stopped"

\* "completed" if duration_ms is not None and accumulated_ms >= duration_ms else "stopped"
StopStatus(row, accumulated_ms) ==
  IF row.duration_ms # None /\ accumulated_ms >= row.duration_ms[1]
  THEN "completed" ELSE "stopped"

\* if row["status"] == "running" and row["started_at"]: bank
StopBanks(row) == row.status = "running" /\ row.started_at # None

\* the row after stop_timer's UPDATE: the delta read at t1, paused_at at t2,
\* updated_at at t3
StopRow(row, t1, t2, t3) ==
  LET accumulated_ms == IF StopBanks(row) THEN Banked(row, t1) ELSE row.accumulated_ms
  IN [row EXCEPT !.status = StopStatus(row, accumulated_ms),
                 !.paused_at = now_iso(t2),
                 !.accumulated_ms = accumulated_ms,
                 !.updated_at = now_iso(t3)]

stop_timer(tid) ==
  LET sel == SelectById(tid)
  IN IF sel = None THEN NotFound("stop", tid)
     ELSE LET row == sel[1]
          IN \E t1 \in (IF StopBanks(row) THEN Instants(clock) ELSE {clock}) :
             \E t2 \in Instants(t1) : \E t3 \in Instants(t2) :
               LET new == StopRow(row, t1, t2, t3)
               IN /\ Reply("stop", tid, row, new, t3)
                  /\ IF row.status = "running" THEN CloseRun(tid, t1, t2) ELSE UNCHANGED runs

Next ==
  \/ Tick
  \/ Restart
  \/ \E p \in Payloads : create_timer(p)
  \/ list_timers
  \/ active_timers
  \/ \E tid \in TimerIds : pause_timer(tid)
  \/ \E tid \in TimerIds : resume_timer(tid)
  \/ \E tid \in TimerIds : stop_timer(tid)

Spec == Init /\ [][Next]_vars

\* ---- several timers, every request within one instant of the clock ----
TablePayloads ==
  [kind : {None}, label : {None},
   duration_ms : {NoDuration, [tag |-> "int", n |-> 0]}]

InitTable ==
  /\ timers = <<>>
  /\ clock = 0
  /\ resp = Response("none", 0, 0, None, <<>>)
  /\ runs = <<>>
  /\ limits = [timers |-> MaxTimers, clock |-> 0, back |-> 0]
  /\ profiles = init_db_profiles(NoProfiles)
  /\ inflight = {}

NextTable ==
  \/ Restart
  \/ \E p \in TablePayloads : create_timer(p)
  \/ list_timers
  \/ active_timers
  \/ \E tid \in TimerIds : pause_timer(tid)
  \/ \E tid \in TimerIds : resume_timer(tid)
  \/ \E tid \in TimerIds : stop_timer(tid)

SpecTable == InitTable /\ [][NextTable]_vars

\* ---- a clock that is set back once ----
BackPayloads ==
  [kind : {None}, label : {None},
   duration_ms : {NoDuration, [tag |-> "int", n |-> 1]}]

InitBack ==
  /\ timers = <<>>
  /\ clock = 0
  /\ resp = Response("none", 0, 0, None, <<>>)
  /\ runs = <<>>
  /\ limits = [timers |-> 1, clock |-> MaxShortClock, back |-> 1]
  /\ profiles = init_db_profiles(NoProfiles)
  /\ inflight = {}

NextBack ==
  \/ Tick
  \/ ClockBack
  \/ \E p \in BackPayloads : create_timer(p)
  \/ list_timers
  \/ active_timers
  \/ \E tid \in TimerIds : pause_timer(tid)
  \/ \E tid \in TimerIds : resume_timer(tid)
  \/ \E tid \in TimerIds : stop_timer(tid)

SpecBack == InitBack /\ [][NextBack]_vars

\* ---- a table written outside the handlers ----
\* text that is no ISO timestamp
Unparseable == <<0, 0, 0>>

\* what the started_at column of a running row may hold: NULL, text that is
\* no timestamp, a timestamp with a UTC offset, a past or future timestamp
StoredStartedAt ==
  {None, Unparseable} \cup {<<t, 0>> : t \in 0..MaxShortClock}
    \cup {<<t>> : t \in 0..MaxShortClock}

StoredRow(started_at, duration_ms, accumulated_ms) ==
  [id |-> 1, kind |-> "custom", label |-> "", duration_ms |-> duration_ms,
   status |-> "running", started_at |-> started_at, paused_at |-> None,
   accumulated_ms |-> accumulated_ms, created_at |-> now_iso(0), updated_at |-> now_iso(0)]

InitStored ==
  /\ \E s \in StoredStartedAt : \E d \in {None, Some(1)} : \E a \in {0, 1} :
        timers = <<StoredRow(s, d, a)>>
  /\ clock = 0
  /\ resp = Response("none", 0, 0, None, <<>>)
  /\ runs = <<NewRun(None)>>
  /\ limits = [timers |-> 1, clock |-> MaxShortClock, back |-> 0]
  /\ profiles = init_db_profiles(NoProfiles)
  /\ inflight = {}

SpecStored == InitStored /\ [][Next]_vars

\* ---- requests on one timer that overlap ----
\* Each request runs on its own connection without a transaction around its
\* SELECT and its UPDATE: a request is in flight from the SELECT and the status
\* check to the UPDATE, and other requests may read and write in between.
RacePayloads ==
  [kind : {None}, label : {None}, duration_ms : {[tag |-> "int", n |-> 1]}]

InitRace ==
  /\ timers = <<>>
  /\ clock = 0
  /\ resp = Response("none", 0, 0, None, <<>>)
  /\ runs = <<>>
  /\ limits = [timers |-> 1, clock |-> MaxShortClock, back |-> 0, inflight |-> 2]
  /\ profiles = init_db_profiles(NoProfiles)
  /\ inflight = {}

\* the SELECT and the checks of pause_timer, resume_timer or stop_timer
RaceRead(op, tid) ==
  LET sel == SelectById(tid)
  IN /\ Cardinality(inflight) < limits.inflight
     /\ IF sel = None THEN NotFound(op, tid)
        ELSE IF \/ (op = "pause" /\ ~PauseAllowed(sel[1]))
                \/ (op = "resume" /\ ~ResumeAllowed(sel[1]))
             THEN InvalidState(op, tid, sel[1])
             ELSE /\ inflight' = inflight \cup {[op |-> op, tid |-> tid, row |-> sel[1],
                                                 at |-> clock]}
                  /\ UNCHANGED <<timers, clock, resp, runs, limits, profiles>>

ResumeColumnsWithAccumulated == {"status", "started_at", "accumulated_ms", "updated_at"}

\* the columns the UPDATE of resume_timer sets
ResumeColumns == {"status", "started_at", "updated_at"}

\* the columns the UPDATE of pause_timer and of stop_timer sets
BankColumns == {"status", "paused_at", "accumulated_ms", "updated_at"}

\* UPDATE timers SET <columns> WHERE id=?: the other columns keep what the
\* table holds now
UpdateColumns(cur, computed, columns) ==
  [f \in DOMAIN cur |-> IF f \in columns THEN computed[f] ELSE cur[f]]

\* the record of the time the stored status was running, at a write
TrackRun(tid, old, new, others) ==
  LET stops == old.status = "running" /\ new.status # "running"
      starts == old.status # "running" /\ new.status = "running"
  IN [runs EXCEPT ![tid] =
        [@ EXCEPT !.open = IF stops THEN None ELSE IF starts THEN Some(clock) ELSE @,
                  !.ticks = IF stops THEN @ + (clock - runs[tid].open[1]) ELSE @,
                  !.overtaken = @ \/ (new.status \in {"stopped", "completed"} /\ others)]]

\* the rest of the handler of request req: the clock read of the delta, taken
\* at an instant t1 since the SELECT, the UPDATE and the reply
RaceWrite(req) ==
  LET cur == timers[req.tid]
  IN \E t1 \in (IF req.op = "resume" THEN {clock} ELSE req.at..clock) :
       LET computed == CASE req.op = "pause" -> PauseRow(req.row, t1, clock, clock)
                         [] req.op = "resume" -> ResumeRow(req.row, clock, clock)
                         [] OTHER -> StopRow(req.row, t1, clock, clock)
           written == UpdateColumns(cur, computed,
                                    IF req.op = "resume" THEN ResumeColumns ELSE BankColumns)
       IN /\ timers' = [timers EXCEPT ![req.tid] = written]
          /\ inflight' = inflight \ {req}
          /\ resp' = Response(req.op, req.tid, 200, Some(req.row), <<Project(written, clock)>>)
          /\ runs' = TrackRun(req.tid, cur, written, inflight # {req})
          /\ UNCHANGED <<clock, limits, profiles>>

NextRace ==
  \/ Tick
  \/ \E p \in RacePayloads : create_timer(p)
  \/ \E op \in {"pause", "resume", "stop"} : \E tid \in TimerIds : RaceRead(op, tid)
  \/ \E req \in inflight : RaceWrite(req)

SpecRace == InitRace /\ [][NextRace]_vars

\* ---- two timers that differ in kind only, handled alike ----
\* Timers 1 and 2 are created by two requests that differ in kind only and
\* read the same instant; from then on every request is sent to both, and the
\* two handlers read the same instants at each of their clock reads.
PairKinds == {ks \in KindInputs \X KindInputs : ks[1] # ks[2]}

PairDurations == {NoDuration, [tag |-> "int", n |-> 1]}

InitPair ==
  /\ timers = <<>>
  /\ clock = 0
  /\ resp = Response("none", 0, 0, None, <<>>)
  /\ runs = <<>>
  /\ limits = [timers |-> 2, clock |-> MaxShortClock, back |-> 0]
  /\ profiles = init_db_profiles(NoProfiles)
  /\ inflight = {}

\* the answers of the two handlers: the code of the first, the bodies of both
PairResponse(op, code, row1, row2, t) ==
  /\ resp' = Response(op, 0, code, None,
                      IF code = 200 THEN <<Project(row1, t), Project(row2, t)>> ELSE <<>>)
  /\ clock' = t
  /\ UNCHANGED <<runs, limits, profiles, inflight>>

PairCreate ==
  /\ Len(timers) = 0
  /\ \E ks \in PairKinds : \E dur \in PairDurations : \E t1 \in Instants(clock) :
       LET p1 == [kind |-> ks[1], label |-> None, duration_ms |-> dur]
           p2 == [kind |-> ks[2], label |-> None, duration_ms |-> dur]
           row1 == NewTimerRow(1, CreateKind(p1), CreateLabel(p1), CreateDuration(p1).value,
                               now_iso(t1))
           row2 == NewTimerRow(2, CreateKind(p2), CreateLabel(p2), CreateDuration(p2).value,
                               now_iso(t1))
       IN \E t2 \in LiveInstants(row1, t1) :
            /\ timers' = <<row1, row2>>
            /\ PairResponse("create", 200, row1, row2, t2)

PairPause ==
  /\ Len(timers) = 2
  /\ \E t1 \in Instants(clock) : \E t2 \in Instants(t1) : \E t3 \in Instants(t2) :
       LET new == [i \in 1..2 |-> IF PauseAllowed(timers[i])
                                  THEN PauseRow(timers[i], t1, t2, t3) ELSE timers[i]]
       IN \E t \in LiveInstants(new[1], t3) :
            /\ timers' = new
            /\ PairResponse("pause", IF PauseAllowed(timers[1]) THEN 200 ELSE 400,
                            new[1], new[2], t)

PairResume ==
  /\ Len(timers) = 2
  /\ \E t1 \in Instants(clock) : \E t2 \in Instants(t1) :
       LET new == [i \in 1..2 |-> IF ResumeAllowed(timers[i])
                                  THEN ResumeRow(timers[i], t1, t2) ELSE timers[i]]
       IN \E t \in LiveInstants(new[1], t2) :
            /\ timers' = new
            /\ PairResponse("resume", IF ResumeAllowed(timers[1]) THEN 200 ELSE 400,
                            new[1], new[2], t)

PairStop ==
  /\ Len(timers) = 2
  /\ \E t1 \in Instants(clock) : \E t2 \in Instants(t1) : \E t3 \in Instants(t2) :
       LET new == [i \in 1..2 |-> StopRow(timers[i], t1, t2, t3)]
       IN \E t \in LiveInstants(new[1], t3) :
            /\ timers' = new
            /\ PairResponse("stop", 200, new[1], new[2], t)

PairList ==
  /\ Len(timers) = 2
  /\ \E t \in LiveInstants(timers[1], clock) :
       /\ PairResponse("list", 200, timers[1], timers[2], t)
       /\ UNCHANGED timers

NextPair ==
  \/ Tick
  \/ PairCreate
  \/ PairPause
  \/ PairResume
  \/ PairStop
  \/ PairList

SpecPair == InitPair /\ [][NextPair]_vars

\* ---- profiles ----
\* len(name) > 50 is refused
MaxNameLen == 50

LongName == "nnnnnnnnnnnnnnnnnnnnnnnnnnnnnnnnnnnnnnnnnnnnnnnnnnn"

NameInputs == {None, Some(" a "), Some(" "), Some(LongName)}
ModeInputs == {None, Some("exam"), Some("bogus")}

\* the JSON bodies of create_profile and update_profile: has, the keys
\* present; mode stands for the columns that are normalised, never refused
\* (mode, theme, mood, font_scale)
ProfilePayloads ==
  [has : {{}}, name : {None}, mode : {None}]
    \cup [has : {{"name"}}, name : NameInputs, mode : {None}]
    \cup [has : {{"mode"}}, name : {None}, mode : ModeInputs]
    \cup [has : {{"name", "mode"}}, name : {Some(" a ")}, mode : {Some("exam")}]

ProfileIds == 1..(MaxProfiles + 1)

\* payload.get(key), None when the key is absent
Get(p, key) == IF key \in p.has THEN p[key] ELSE None

\* (payload.get("name") or "").strip()
ProfileName(p) == Strip(OrDefault(Get(p, "name"), ""))

\* if not name or len(name) > 50: 400
NameRefused(name) == Len(name) = 0 \/ Len(name) > MaxNameLen

\* mode = (payload.get("mode") or "study").strip(); unrecognized -> "study"
ProfileMode(p) ==
  LET mode == Strip(OrDefault(Get(p, "mode"), "study"))
  IN IF mode \in {"study", "relax", "exam", "work", "custom"} THEN mode ELSE "study"

\* SELECT * FROM profiles WHERE id=?  (fetchone) on the rows of a table
SelectProfile(rows, pid) ==
  IF \E r \in rows : r.id = pid THEN Some(CHOOSE r \in rows : r.id = pid) ELSE None

ProfileResponse(op, pid, code, body) == Response(op, pid, code, None, body)

create_profile(p) ==
  IF NameRefused(ProfileName(p))
  THEN /\ resp' = ProfileResponse("create_profile", 0, 400, <<>>)
       /\ UNCHANGED <<timers, clock, runs, limits, profiles, inflight>>
  ELSE /\ profiles.seq < MaxProfiles
       /\ LET pid == profiles.seq + 1
              row == ProfileRow(pid, ProfileName(p), ProfileMode(p), 0)
          IN /\ profiles' = [rows |-> profiles.rows \cup {row}, seq |-> pid]
             /\ resp' = ProfileResponse("create_profile", pid, 200, <<row>>)
       /\ UNCHANGED <<timers, clock, runs, limits, inflight>>

\* SELECT * FROM profiles WHERE is_active=1 LIMIT 1
get_active_profile ==
  /\ IF \E r \in profiles.rows : r.is_active = 1
     THEN \E r \in {q \in profiles.rows : q.is_active = 1} :
            resp' = ProfileResponse("get_active", r.id, 200, <<r>>)
     ELSE resp' = ProfileResponse("get_active", 0, 404, <<>>)
  /\ UNCHANGED <<timers, clock, runs, limits, profiles, inflight>>

\* ORDER BY is_active DESC, id DESC
RECURSIVE OrderProfiles(_)
OrderProfiles(rows) ==
  IF rows = {} THEN <<>>
  ELSE LET m == CHOOSE r \in rows :
                  \A q \in rows : \/ q.is_active < r.is_active
                                   \/ (q.is_active = r.is_active /\ q.id <= r.id)
       IN <<m>> \o OrderProfiles(rows \ {m})

list_profiles ==
  /\ resp' = ProfileResponse("list_profiles", 0, 200, OrderProfiles(profiles.rows))
  /\ UNCHANGED <<timers, clock, runs, limits, profiles, inflight>>

\* UPDATE profiles SET is_active=0
DeactivateAll(rows) == {[r EXCEPT !.is_active = 0] : r \in rows}

\* UPDATE profiles SET is_active=1 WHERE id=?
ActivateOne(rows, pid) ==
  {IF r.id = pid THEN [r EXCEPT !.is_active = 1] ELSE r : r \in rows}

\* both UPDATEs are committed before the row is looked up
activate_profile(pid) ==
  LET rows == ActivateOne(DeactivateAll(profiles.rows), pid)
      sel == SelectProfile(rows, pid)
  IN /\ profiles' = [profiles EXCEPT !.rows = rows]
     /\ resp' = IF sel = None THEN ProfileResponse("activate", pid, 404, <<>>)
                ELSE ProfileResponse("activate", pid, 200, <<sel[1]>>)
     /\ UNCHANGED <<timers, clock, runs, limits, inflight>>

\* UPDATE profiles SET name=?, mode=? WHERE id=?, with the keys present
UpdateOne(rows, pid, p) ==
  {IF r.id = pid
   THEN [r EXCEPT !.name = IF "name" \in p.has THEN ProfileName(p) ELSE @,
                  !.mode = IF "mode" \in p.has THEN ProfileMode(p) ELSE @]
   ELSE r : r \in rows}

update_profile(pid, p) ==
  IF ("name" \in p.has /\ NameRefused(ProfileName(p))) \/ p.has = {}
  THEN /\ resp' = ProfileResponse("update", pid, 400, <<>>)
       /\ UNCHANGED <<timers, clock, runs, limits, profiles, inflight>>
  ELSE LET rows == UpdateOne(profiles.rows, pid, p)
           sel == SelectProfile(rows, pid)
       IN /\ profiles' = [profiles EXCEPT !.rows = rows]
          /\ resp' = IF sel = None THEN ProfileResponse("update", pid, 404, <<>>)
                     ELSE ProfileResponse("update", pid, 200, <<sel[1]>>)
          /\ UNCHANGED <<timers, clock, runs, limits, inflight>>

LastProfileOffByOne(rows) == Cardinality(rows) < 1

\* count <= 1: "Cannot delete last profile"
LastProfile(rows) == Cardinality(rows) <= 1

\* row and row["is_active"]: "Cannot delete active profile"
ActiveProfile(rows, pid) ==
  LET sel == SelectProfile(rows, pid)
  IN sel # None /\ sel[1].is_active # 0

delete_profile(pid) ==
  IF LastProfile(profiles.rows) \/ ActiveProfile(profiles.rows, pid)
  THEN /\ resp' = ProfileResponse("delete", pid, 400, <<>>)
       /\ UNCHANGED <<timers, clock, runs, limits, profiles, inflight>>
  ELSE LET rows == {r \in profiles.rows : r.id # pid}
       IN /\ profiles' = [profiles EXCEPT !.rows = rows]
          /\ resp' = IF rows = profiles.rows
                     THEN ProfileResponse("delete", pid, 404, <<>>)
                     ELSE ProfileResponse("delete", pid, 200, <<>>)
          /\ UNCHANGED <<timers, clock, runs, limits, inflight>>

NextProfiles ==
  \/ Restart
  \/ \E p \in ProfilePayloads : create_profile(p)
  \/ list_profiles
  \/ get_active_profile
  \/ \E pid \in ProfileIds : activate_profile(pid)
  \/ \E pid \in ProfileIds : \E p \in ProfilePayloads : update_profile(pid, p)
  \/ \E pid \in ProfileIds : delete_profile(pid)

SpecProfiles == Init /\ [][NextProfiles]_vars

\* ---- properties ----
Terminal == {"stopped", "completed"}

\* the timer objects of the last response
Returned == {resp.timers[i] : i \in DOMAIN resp.timers}

\* the last request named a timer that exists, and this is the row it found
Found == resp.row0 # None
Row0 == resp.row0[1]

\* C1: in every timer object returned, live_elapsed_ms >= accumulated_ms when
\* the status is running and live_elapsed_ms = accumulated_ms when it is paused,
\* stopped or completed
C1_LiveElapsed ==
  \A d \in Returned :
     /\ d.status = "running" => d.live_elapsed_ms >= d.accumulated_ms
     /\ d.status \in {"paused"} \cup Terminal => d.live_elapsed_ms = d.accumulated_ms

\* a paused timer with banked time is listed after the clock has moved on
C1_Witness ==
  /\ resp.op = "list"
  /\ \E d \in Returned : /\ d.status = "paused"
                         /\ d.accumulated_ms > 0
                         /\ clock > d.updated_at[1]

\* C2: for every timer object returned whose duration_ms is set,
\* live_remaining_ms is max(0, duration_ms - live_elapsed_ms) of the same
\* response: the difference when it is not negative, 0 otherwise
C2_LiveRemaining ==
  \A d \in Returned :
     d.duration_ms # None =>
        LET rem == d.live_remaining_ms[1]
            diff == d.duration_ms[1] - d.live_elapsed_ms
        IN /\ d.live_remaining_ms # None
           /\ rem >= 0
           /\ diff >= 0 => rem = diff
           /\ diff < 0 => rem = 0

\* a running countdown is read after it has run past its duration
C2_Witness ==
  \E d \in Returned : /\ d.duration_ms # None
                      /\ d.duration_ms[1] >= 0
                      /\ d.status = "running"
                      /\ d.live_elapsed_ms > d.duration_ms[1]

\* C3: every timer object returned for a timer without duration_ms has
\* live_remaining_ms null
C3_StopwatchRemainingNull ==
  \A d \in Returned : d.duration_ms = None => d.live_remaining_ms = None

\* a stopwatch that has run, was paused and resumed, is stopped
C3_Witness ==
  /\ resp.op = "stop" /\ resp.code = 200 /\ Found
  /\ Row0.status = "running" /\ Row0.paused_at # None
  /\ \E d \in Returned : d.duration_ms = None /\ d.live_elapsed_ms > 0

C5_StopStatus ==
  (resp.op = "stop" /\ Found /\ Row0.status \in {"running", "paused"}) =>
     /\ resp.code = 200
     /\ \A d \in Returned :
          /\ d = Project(timers[resp.tid], clock)
          /\ IF d.duration_ms # None /\ d.accumulated_ms >= d.duration_ms[1]
             THEN d.status = "completed" /\ d.live_remaining_ms = Some(0)
             ELSE d.status = "stopped"

\* a countdown paused short of its duration and resumed is stopped past it
C5_Witness ==
  /\ resp.op = "stop" /\ resp.code = 200 /\ Found
  /\ Row0.status = "running" /\ Row0.paused_at # None
  /\ Row0.duration_ms # None
  /\ Row0.accumulated_ms < Row0.duration_ms[1]
  /\ timers[resp.tid].status = "completed"

\* C6: a pause on a timer that is not running and a resume on a timer that is
\* not paused are answered 400 and leave the record as it was
C6_IllegalTransitionRejected ==
  /\ (resp.op = "pause" /\ Found /\ Row0.status # "running") =>
        resp.code = 400 /\ timers[resp.tid] = Row0
  /\ (resp.op = "resume" /\ Found /\ Row0.status # "paused") =>
        resp.code = 400 /\ timers[resp.tid] = Row0

\* a paused timer is asked to pause again
C6_Witness ==
  /\ resp.op = "pause" /\ resp.code = 400 /\ Found
  /\ Row0.status = "paused"

\* C7: once a timer is stopped or completed, no step changes its status
C7_TerminalStatus ==
  [][\A tid \in DOMAIN timers :
       timers[tid].status \in Terminal => timers'[tid].status = timers[tid].status]_vars

\* a completed timer has been asked to stop again
C7_Witness ==
  /\ resp.op = "stop" /\ resp.code = 200 /\ Found
  /\ Row0.status = "completed"

\* C8 (as claimed): a stop on a stopped or completed timer leaves every
\* persisted field of the record as it was
C8_StopOnTerminalNoChange ==
  (resp.op = "stop" /\ Found /\ Row0.status \in Terminal) => timers[resp.tid] = Row0

\* C9: a successful create adds one record, running, with accumulated_ms 0,
\* paused_at null and started_at = created_at = updated_at = the instant of the
\* create
C9_CreateRunning ==
  (resp.op = "create" /\ resp.code = 200) =>
     /\ resp.tid = Len(timers)
     /\ LET row == timers[resp.tid]
        IN /\ row.status = "running"
           /\ row.accumulated_ms = 0
           /\ row.paused_at = None
           /\ row.started_at = runs[resp.tid].open
           /\ row.started_at # None
           /\ row.created_at = row.started_at
           /\ row.updated_at = row.started_at
           /\ \A d \in Returned : \A f \in DOMAIN row : d[f] = row[f]

\* a countdown has been created after the clock has advanced
C9_Witness ==
  /\ resp.op = "create" /\ resp.code = 200
  /\ timers[resp.tid].duration_ms # None
  /\ timers[resp.tid].created_at[1] > 0

\* C10 (as claimed): every stored timer has duration_ms null or >= 0
C10_DurationNonNegative ==
  \A tid \in DOMAIN timers :
     timers[tid].duration_ms = None \/ timers[tid].duration_ms[1] >= 0

\* C11: pause, resume and stop on an id that is not in the table answer 404,
\* create no record and change no record
C11_UnknownIdNotFound ==
  [][\A tid \in TimerIds :
       (SelectById(tid) = None /\ (pause_timer(tid) \/ resume_timer(tid) \/ stop_timer(tid)))
          => /\ resp'.code = 404
             /\ resp'.timers = <<>>
             /\ timers' = timers]_vars

\* a stop names an id the table does not hold while the table holds a timer
C11_Witness ==
  /\ resp.op = "stop" /\ resp.code = 404
  /\ Len(timers) > 0
  /\ resp.tid \notin DOMAIN timers

\* the columns that create_timer writes and no UPDATE names
CreationFields == {"id", "kind", "label", "duration_ms", "created_at"}

\* C12: for a running timer whose stored started_at is null, unparseable, or a
\* timestamp with or without a UTC offset, past or future, pause and stop never
\* raise: they answer 200, and add nothing when started_at is null or unparseable
C12_FailOpen ==
  (resp.op \in {"pause", "stop"} /\ Found /\ Row0.status = "running")
     => /\ resp.code = 200
        /\ (Row0.started_at = None \/ ~Parseable(Row0.started_at))
              => \A d \in Returned : d.accumulated_ms = Row0.accumulated_ms

\* C13: id, kind, label, duration_ms and created_at of a timer keep their
\* values in every step, and every response shows them as stored
C13_CreationFieldsFixed ==
  [][/\ \A tid \in DOMAIN timers :
          /\ tid \in DOMAIN timers'
          /\ \A f \in CreationFields : timers'[tid][f] = timers[tid][f]
     /\ \A i \in DOMAIN resp'.timers :
          LET d == resp'.timers[i]
          IN /\ d.id \in DOMAIN timers'
             /\ \A f \in CreationFields : d[f] = timers'[d.id][f]]_vars

\* a labelled timer has been paused, resumed and stopped at later instants
C13_Witness ==
  /\ resp.op = "stop" /\ resp.code = 200
  /\ \E d \in Returned :
       /\ d.label = "a"
       /\ d.updated_at # d.created_at
       /\ d.started_at # d.created_at

\* C14: a step that changes a persisted field is a successful create, pause,
\* resume or stop, changes that one timer and answers with it: the passage of
\* time, list, list-active and a restart of the server change nothing, and a
\* list shows the live fields derived from the stored rows alone, restart or not
C14_OnlyTransitionsWrite ==
  [][/\ timers' # timers
          => /\ resp'.op \in {"create", "pause", "resume", "stop"}
             /\ resp'.code = 200
             /\ Len(resp'.timers) = 1
             /\ LET d == resp'.timers[1]
                IN /\ d.id \in DOMAIN timers'
                   /\ \A f \in DOMAIN timers'[d.id] : d[f] = timers'[d.id][f]
                   /\ \A tid \in DOMAIN timers : tid # d.id => timers'[tid] = timers[tid]
     /\ (resp'.op \in {"list", "active"} /\ resp' # resp)
          => \A i \in DOMAIN resp'.timers :
               LET d == resp'.timers[i]
               IN \E t \in clock..clock' : d = Project(timers[d.id], t)]_vars

\* the server has been restarted while a countdown runs past its duration_ms
C14_Witness ==
  /\ resp.op = "none" /\ Len(timers) > 0
  /\ \E tid \in DOMAIN timers :
       /\ timers[tid].status = "running"
       /\ timers[tid].duration_ms # None /\ timers[tid].duration_ms[1] > 0
       /\ delta_ms(clock, fromisoformat(timers[tid].started_at)) > timers[tid].duration_ms[1]

\* C15: list-active returns exactly the stored timers that are running or
\* paused, and no stopped or completed one
C15_ActiveIsRunningOrPaused ==
  (resp.op = "active" /\ resp.code = 200)
     => /\ {d.id : d \in Returned}
             = {tid \in DOMAIN timers : timers[tid].status \in {"running", "paused"}}
        /\ \A d \in Returned : d.status \notin Terminal
        /\ Len(resp.timers) = Cardinality(Returned)

\* list-active leaves out a stopped timer and returns a paused one
C15_Witness ==
  /\ resp.op = "active" /\ resp.code = 200
  /\ Len(resp.timers) = 1 /\ resp.timers[1].status = "paused"
  /\ \E tid \in DOMAIN timers : timers[tid].status \in Terminal

\* C16: list returns every timer ever created, each once, in strictly
\* descending id order; no step removes a timer or changes an id, ids are
\* unique and a new timer's id exceeds every earlier one
C16_ListAllNewestFirst ==
  [][/\ Len(timers') >= Len(timers)
     /\ \A i \in DOMAIN timers : timers'[i].id = timers[i].id
     /\ \A i \in DOMAIN timers : \A j \in DOMAIN timers :
          i < j => timers[i].id < timers[j].id
     /\ \A i \in DOMAIN timers' \ DOMAIN timers : \A j \in DOMAIN timers :
          timers'[i].id > timers[j].id
     /\ list_timers
          => /\ Len(resp'.timers) = Len(timers)
             /\ {resp'.timers[k].id : k \in DOMAIN resp'.timers}
                  = {timers[i].id : i \in DOMAIN timers}
             /\ \A k \in 1..(Len(resp'.timers) - 1) :
                  resp'.timers[k].id > resp'.timers[k + 1].id]_vars

\* a list of two timers, the older one stopped, the newer one first
C16_Witness ==
  /\ resp.op = "list" /\ resp.code = 200
  /\ Len(resp.timers) = 2
  /\ resp.timers[1].id = 2 /\ resp.timers[2].id = 1
  /\ resp.timers[2].status \in Terminal

\* C18: started_at is never null and is the instant of the timer's last
\* transition into running; a pause or a stop leaves it as it was
C18_StartedAtLastStart ==
  /\ \A tid \in DOMAIN timers :
       /\ timers[tid].started_at # None
       /\ timers[tid].started_at = runs[tid].start
  /\ (resp.op \in {"pause", "stop"} /\ resp.code = 200)
       => \A d \in Returned : d.started_at = Row0.started_at

\* a timer resumed at a later instant than its creation has been paused again
C18_Witness ==
  /\ resp.op = "pause" /\ resp.code = 200
  /\ \E d \in Returned :
       /\ d.started_at # d.created_at
       /\ d.started_at = Row0.started_at
       /\ d.paused_at # d.started_at

\* C19: paused_at is null while the timer has never left running, and
\* otherwise the instant written by the pause or stop that ended its last
\* running interval; a stop on a paused timer does not move it
C19_PausedAtLastLeftRunning ==
  \A tid \in DOMAIN timers : timers[tid].paused_at = runs[tid].left

\* C20: accumulated_ms is never negative and never decreases, the clock set
\* back or not, and a pause or stop that reads a clock earlier than started_at
\* banks nothing
C20_BankingClamped ==
  [][/\ \A tid \in DOMAIN timers :
          /\ timers[tid].accumulated_ms >= 0
          /\ timers'[tid].accumulated_ms >= timers[tid].accumulated_ms
     /\ \A tid \in DOMAIN timers :
          ((pause_timer(tid) \/ stop_timer(tid))
              /\ timers[tid].status = "running"
              /\ fromisoformat(timers[tid].started_at) > clock')
             => timers'[tid].accumulated_ms = timers[tid].accumulated_ms]_vars

\* a timer with banked time, resumed before the clock was set back by a
\* millisecond or more, has been paused
C20_Witness ==
  /\ resp.op = "pause" /\ resp.code = 200
  /\ Row0.accumulated_ms > 0
  /\ fromisoformat(Row0.started_at) - clock >= TicksPerMs
  /\ \A d \in Returned : d.accumulated_ms = Row0.accumulated_ms

\* C21: status is running, paused, stopped or completed; a completed timer has
\* a duration_ms that its accumulated_ms has reached, and reads 0 remaining;
\* a stopped timer has no duration_ms or an accumulated_ms below it; a timer
\* becomes completed only in a successful stop of that timer
C21_StatusInvariant ==
  [][\A tid \in DOMAIN timers' :
       LET r == timers'[tid]
       IN /\ r.status \in {"running", "paused", "stopped", "completed"}
          /\ r.status = "completed"
               => /\ r.duration_ms # None
                  /\ r.accumulated_ms >= r.duration_ms[1]
                  /\ timer_live_fields(r, clock').live_remaining_ms = Some(0)
          /\ r.status = "stopped"
               => (r.duration_ms = None \/ r.accumulated_ms < r.duration_ms[1])
          /\ (r.status = "completed" /\ (tid \notin DOMAIN timers \/ timers[tid].status # "completed"))
               => (resp'.op = "stop" /\ resp'.tid = tid /\ resp'.code = 200)]_vars

\* a list shows a countdown that a stop has completed and a later moment
C21_Witness ==
  /\ resp.op = "list" /\ resp.code = 200
  /\ \E d \in Returned :
       /\ d.status = "completed"
       /\ d.duration_ms # None /\ d.duration_ms[1] > 0
       /\ d.live_remaining_ms = Some(0)
       /\ clock > fromisoformat(d.updated_at)

\* C23: one pause or stop writes paused_at and updated_at with the same
\* instant, and banks exactly the time from started_at to that instant; one
\* resume writes started_at and updated_at with the same instant
C23_SingleInstant ==
  (resp.code = 200 /\ Found)
     => \A d \in Returned :
          /\ resp.op \in {"pause", "stop"}
               => /\ d.paused_at = d.updated_at
                  /\ Row0.status = "running"
                       => d.accumulated_ms = Row0.accumulated_ms
                             + Max(0, delta_ms(fromisoformat(d.paused_at),
                                               fromisoformat(Row0.started_at)))
          /\ resp.op = "resume" => d.started_at = d.updated_at

\* the profiles whose is_active is 1
ActiveProfiles == {r \in profiles.rows : r.is_active = 1}

\* C26: delete_profile refuses with 400 to delete the last profile or the
\* active one and leaves the table as it was; a profile that disappears was
\* not active and not the last; the table always holds a profile
C26_DeleteKeepsLastAndActive ==
  [][/\ Cardinality(profiles'.rows) >= 1
     /\ \A r \in profiles.rows :
          (\A q \in profiles'.rows : q.id # r.id)
             => (r.is_active = 0 /\ Cardinality(profiles.rows) > 1)
     /\ \A pid \in ProfileIds :
          (delete_profile(pid)
              /\ (Cardinality(profiles.rows) <= 1 \/ \E r \in ActiveProfiles : r.id = pid))
             => (resp'.code = 400 /\ profiles' = profiles)]_vars

\* the delete of the active profile is refused while another profile exists
C26_Witness ==
  /\ resp.op = "delete" /\ resp.code = 400
  /\ Cardinality(profiles.rows) > 1
  /\ \E r \in ActiveProfiles : r.id = resp.tid

\* C27: exactly one profile has is_active = 1
C27_ExactlyOneActive == Cardinality(ActiveProfiles) = 1

\* C28: activate_profile on an id that is not in the table answers 404 and
\* leaves every is_active flag as it was
C28_ActivateUnknownNoChange ==
  [][\A pid \in ProfileIds :
       (activate_profile(pid) /\ SelectProfile(profiles.rows, pid) = None)
          => (resp'.code = 404 /\ profiles' = profiles)]_vars

\* what the claim compares of a timer
Arithmetic(d) ==
  [f \in {"status", "accumulated_ms", "live_elapsed_ms", "live_remaining_ms"} |-> d[f]]

\* C22: every stored kind is pomodoro, stopwatch or custom, and two timers
\* that differ in kind only and are sent the same requests at the same clock
\* values agree on status, accumulated_ms and both live fields, stored and
\* as answered
C22_KindInformational ==
  /\ \A tid \in DOMAIN timers : timers[tid].kind \in {"pomodoro", "stopwatch", "custom"}
  /\ Len(timers) = 2
       => /\ timers[1].kind # timers[2].kind
          /\ \A t \in clock..limits.clock :
               Arithmetic(Project(timers[1], t)) = Arithmetic(Project(timers[2], t))
  /\ Len(resp.timers) = 2
       => Arithmetic(resp.timers[1]) = Arithmetic(resp.timers[2])

\* a stopwatch and a timer of an unrecognized kind, both with a duration_ms,
\* have been paused, resumed and stopped
C22_Witness ==
  /\ resp.op = "stop" /\ resp.code = 200 /\ Len(resp.timers) = 2
  /\ {resp.timers[1].kind, resp.timers[2].kind} = {"stopwatch", "custom"}
  /\ resp.timers[1].duration_ms # None
  /\ resp.timers[1].started_at # resp.timers[1].created_at
  /\ resp.timers[1].status = "completed"

\* C24 as claimed: with overlapping requests, a timer stored as stopped or
\* completed is never afterwards written back to paused or running
C24_Original ==
  [][\A tid \in DOMAIN timers :
       timers[tid].status \in Terminal => timers'[tid].status \notin {"paused", "running"}]_vars

\* C24: a request that read a terminal status never writes paused or running
\* (pause and resume are refused, stop writes a terminal status again); a
\* terminal status is overwritten only by a pause or resume that read the row
\* before the terminal status was stored
C24_TerminalLeftOnlyByStaleWrite ==
  [][/\ \A tid \in DOMAIN timers :
          (timers[tid].status \in Terminal /\ timers'[tid].status \notin Terminal)
             => /\ resp'.op \in {"pause", "resume"} /\ resp'.tid = tid /\ resp'.code = 200
                /\ resp'.row0[1].status \notin Terminal
                /\ resp'.row0[1] # timers[tid]
     /\ \A req \in inflight :
          (RaceWrite(req) /\ req.row.status \in Terminal)
             => timers'[req.tid].status \in Terminal
     /\ \A req \in inflight' :
          req.op \in {"pause", "resume"} => req.row.status \notin Terminal]_vars

\* a pause that read the timer while it ran has written paused over the
\* terminal status a stop stored in between
C24_Witness ==
  /\ resp.op = "pause" /\ resp.code = 200
  /\ runs[resp.tid].overtaken
  /\ timers[resp.tid].status = "paused"

\* the time timer tid has spent stored as running, in ticks
Ran(tid) ==
  runs[tid].ticks + (IF runs[tid].open # None THEN clock - runs[tid].open[1] ELSE 0)

\* C25 as claimed: with overlapping requests, the stored accumulated_ms never
\* exceeds the time the timer was stored as running and never decreases
C25_Original ==
  [][\A tid \in DOMAIN timers :
       /\ timers'[tid].accumulated_ms >= timers[tid].accumulated_ms
       /\ timers'[tid].accumulated_ms * TicksPerMs <= Ran(tid)']_vars

\* C25: a pause or stop stores the accumulated_ms it read plus the clamped
\* time from the started_at it read to its clock read, and only if the row it
\* read was running: never less than it read, never more than the time since
\* that started_at; a resume leaves the stored accumulated_ms alone
C25_BankedFromTheRowRead ==
  [][\A req \in inflight :
       RaceWrite(req)
          => LET written == timers'[req.tid].accumulated_ms
             IN IF req.op = "resume"
                THEN written = timers[req.tid].accumulated_ms
                ELSE /\ written >= req.row.accumulated_ms
                     /\ written <= req.row.accumulated_ms
                                     + Max(0, delta_ms(clock, fromisoformat(req.row.started_at)))
                     /\ req.row.status # "running" => written = req.row.accumulated_ms]_vars

\* a pause or stop that overlapped another request has stored more than the
\* time the timer was stored as running
C25_Witness ==
  /\ resp.op \in {"pause", "stop"} /\ resp.code = 200
  /\ timers[resp.tid].accumulated_ms * TicksPerMs > Ran(resp.tid)
====
